---- MODULE Spec2Model ----
(***************************************************************************)
(* StudioLink: the session-multiplexed request/response broker.            *)
(*                                                                         *)
(* The broker state (AppState, src/src/state.rs) lives behind one mutex;   *)
(* every critical section of a handler is one atomic action here.  Time is *)
(* counted in whole seconds, as Instant::elapsed().as_secs() reports it,   *)
(* and advances in steps of TickSecs.                                      *)
(***************************************************************************)
EXTENDS Integers, Sequences, FiniteSets, TLC

(***************************************************************************)
(* Program constants.                                                      *)
(***************************************************************************)
\* is_session_connected: last_heartbeat.elapsed().as_secs() < 30
ConnectedSecs == 30
\* cleanup_expired: last_heartbeat.elapsed().as_secs() > 60
ReapSecs == 60
\* handle_poll_request: the long poll waits Duration::from_secs(30)
PollWaitSecs == 30
\* handle_proxy_tool_call waits Duration::from_secs(60)
ProxyWaitSecs == 60
\* tools/mod.rs: DEFAULT_TIMEOUT = Duration::from_secs(30)
DefaultTimeoutSecs == 30
\* tools/mod.rs: EXTENDED_TIMEOUT = Duration::from_secs(120)
ExtendedTimeoutSecs == 120
\* send_via_proxy: .timeout(timeout + Duration::from_secs(5))
ProxySlackSecs == 5
\* main.rs: the default of --port
Port == 34872

(***************************************************************************)
(* Bounds of the model.                                                    *)
(***************************************************************************)
\* How many requests (fresh uuids) the model mints.
MaxReq == 2

\* The clock advances in steps of this many seconds: ages 0, 30, 60, 90 hit
\* both thresholds exactly (30 is not "< 30", 60 is not "> 60").
TickSecs == ConnectedSecs
\* Ages are capped once they are past every threshold.
MaxAge == ReapSecs + TickSecs

SessionIds == {"A", "B", "C"}
PlaceIds == {1, 2}
PlaceNames == {"P", "Q"}
GameIds == {1}
Tools == {"run_code"}
Bodies == {"b1"}
Pollers == {"p1"}
\* The broker processes started on the port.
Procs == {"m1", "m2", "m3"}
\* The processes whose tools are called.
Callers == {"m1", "m2"}
\* The timeouts the tools pass to send_to_plugin.
CallerTimeouts == {DefaultTimeoutSecs, ExtendedTimeoutSecs}

None == "none"

\* SessionRegistration (state.rs:28-33)
SessionRegistration ==
    [session_id : SessionIds, place_id : PlaceIds,
     place_name : PlaceNames, game_id : GameIds]

\* The registrations the plugins post: A and B for the same place (B also for
\* a place of the same id and another name), C for another place id.
Reg(s, p, n) == [session_id |-> s, place_id |-> p, place_name |-> n, game_id |-> 1]
Registrations ==
    {Reg("A", 1, "P"), Reg("B", 1, "P"), Reg("B", 1, "Q"), Reg("C", 2, "P")}
SessionsAB == {"A", "B"}
RegistrationsAB == {r \in Registrations : r.session_id \in SessionsAB}
\* The timeout a caller passes to send_to_plugin, in seconds left to wait: 0
\* is a timeout that may elapse at any moment after the enqueue.
Timeouts == {0}

\* PluginResponse (state.rs:17-24): result and error are opaque; `body` is the
\* result of a success and the error text of a failure.
PluginResponse == [id : 1..MaxReq, success : BOOLEAN, body : Bodies]
\* No response: an empty reply channel.
NoResponse == [id |-> 0, success |-> FALSE, body |-> None]
\* What a caller returns: Ok(result), PluginError(msg), RequestTimeout(tool),
\* PluginNotConnected; for the proxy handler the HTTP status and its body.
Outcome(kind, body) == [kind |-> kind, body |-> body]
NoOutcome == Outcome(None, None)
EmptyMap == [x \in {} |-> None]

Min(a, b) == IF a < b THEN a ELSE b
Max(a, b) == IF a > b THEN a ELSE b

\* f without key k (HashMap::remove)
MapRemove(f, k) == [x \in (DOMAIN f) \ {k} |-> f[x]]
\* Variant: the first write wins, an entry already present is kept.
MapInsert_keep(f, k, v) ==
    [x \in (DOMAIN f) \cup {k} |-> IF x \in DOMAIN f THEN f[x] ELSE v]
\* f with key k bound to v (HashMap::insert)
MapInsert(f, k, v) == [x \in (DOMAIN f) \cup {k} |-> IF x = k THEN v ELSE f[x]]

VARIABLES
    sessions,           \* AppState.sessions: session_id -> SessionState
    active_session,     \* AppState.active_session: None or a session id
    response_channels,  \* AppState.response_channels: the ids that hold a sender
    calls,              \* per request id: the caller awaiting its receiver
    next_id,            \* the next fresh request id (Uuid::new_v4)
    pollers,            \* per poller: where it is in handle_poll_request
    enqueued,           \* history: per session id, the request ids enqueued
    returned,           \* history: per session id, the request ids polls returned
    answered,           \* history: per request id, the responses answered 200
    registered_at,      \* history: per session id, the lengths of enqueued and
                        \* returned at its latest registration
    last_op,            \* history: the last operation and its reply
    brokers             \* per broker process: its mode and its forwarded call

vars == <<sessions, active_session, response_channels, calls, next_id,
          pollers, enqueued, returned, answered, registered_at, last_op,
          brokers>>

(***************************************************************************)
(* AppState: the operations of src/src/state.rs, as functions of the       *)
(* fields they read and write.                                             *)
(***************************************************************************)

\* A fresh SessionState (register_session, state.rs:113-131).  `elapsed` is
\* last_heartbeat.elapsed().as_secs(); `notified` says whether notify_tx has
\* sent since the watch channel was made (the stored notify_rx never marks a
\* value seen, so every clone of it starts at the channel's first version).
NewSession(reg) ==
    [place_id |-> reg.place_id, place_name |-> reg.place_name,
     game_id |-> reg.game_id, elapsed |-> 0,
     request_queue |-> <<>>, notified |-> FALSE]

\* Variant: a session counts as connected until it is stale enough to be reaped.
is_session_connected_until_stale(sess, id) ==
    id \in DOMAIN sess /\ sess[id].elapsed <= ReapSecs

\* Variant: a heartbeat exactly ConnectedSecs old still counts as connected.
is_session_connected_inclusive(sess, id) ==
    id \in DOMAIN sess /\ sess[id].elapsed <= ConnectedSecs

is_session_connected(sess, id) ==
    id \in DOMAIN sess /\ sess[id].elapsed < ConnectedSecs

\* Variant: the plugin always counts as connected.
is_plugin_connected_always(sess, act) == TRUE

\* Variant: any active session counts as connected, whatever its heartbeat.
is_plugin_connected_any_active(sess, act) ==
    act /= None /\ act \in DOMAIN sess

is_plugin_connected(sess, act) ==
    act /= None /\ is_session_connected(sess, act)

\* Variant: the session is removed and active_session is left as it is.
unregister_session_keep_active(sess, act, id) ==
    {[sessions |-> MapRemove(sess, id), active |-> act]}

\* unregister_session: the outcomes [sessions, active].  When the active
\* session is removed, active becomes self.sessions.keys().next(): the first
\* key in the HashMap's iteration order, which is any remaining key.
unregister_session(sess, act, id) ==
    LET rest == MapRemove(sess, id)
    IN  IF act = id
        THEN IF DOMAIN rest = {}
             THEN {[sessions |-> rest, active |-> None]}
             ELSE {[sessions |-> rest, active |-> k] : k \in DOMAIN rest}
        ELSE {[sessions |-> rest, active |-> act]}

\* `for id in ids { self.unregister_session(&id) }` over a Vec collected from
\* the HashMap: the ids in any order.
RECURSIVE unregister_each(_, _, _)
unregister_each(sess, act, ids) ==
    IF ids = {}
    THEN {[sessions |-> sess, active |-> act]}
    ELSE UNION { UNION { unregister_each(o.sessions, o.active, ids \ {id})
                         : o \in unregister_session(sess, act, id) }
                 : id \in ids }

\* The caller c still holds the receiver of its reply channel: it awaits the
\* response, or its wait has resolved and it has not returned yet (the receiver
\* is a local of send_to_plugin and of handle_proxy_tool_call, dropped when
\* they return).
ReceiverHeld(c) == c.st \in {"waiting", "resolved"}

\* Variant: the sweep removes every sender, closed or not.
RetainOpen_sweep_all(chans, cs) == {}

\* cleanup_expired, the response_channels.retain: a sender is closed once its
\* receiver is dropped.
RetainOpen(chans, cs) == {id \in chans : ReceiverHeld(cs[id])}

\* Variant: a heartbeat exactly ReapSecs old is reaped already.
StaleSessions_inclusive(sess) == {id \in DOMAIN sess : sess[id].elapsed >= ReapSecs}

\* cleanup_expired, the stale sessions.
StaleSessions(sess) == {id \in DOMAIN sess : sess[id].elapsed > ReapSecs}

\* Variant: the filter on the id is inverted, no other session is a duplicate.
Duplicates_same_id(sess, reg) ==
    {id \in DOMAIN sess :
        /\ id = reg.session_id
        /\ sess[id].place_id = reg.place_id
        /\ sess[id].place_name = reg.place_name}

\* register_session, the duplicates of a registration.
Duplicates(sess, reg) ==
    {id \in DOMAIN sess :
        /\ id /= reg.session_id
        /\ sess[id].place_id = reg.place_id
        /\ sess[id].place_name = reg.place_name}

\* register_session, the auto-activation at its end.
AutoActivate(sess, act, id) ==
    IF act = None \/ ~is_plugin_connected(sess, act) THEN id ELSE act

\* Variant: a registration under an id already present keeps the queue of the
\* session it replaces.
register_session_keep_queue(sess, act, reg) ==
    LET fresh == [NewSession(reg) EXCEPT
                    !.request_queue = IF reg.session_id \in DOMAIN sess
                                      THEN sess[reg.session_id].request_queue
                                      ELSE <<>>]
    IN  UNION { { [sessions |-> MapInsert(e.sessions, reg.session_id, fresh),
                   active |-> AutoActivate(
                                MapInsert(e.sessions, reg.session_id, fresh),
                                e.active, reg.session_id),
                   mid |-> e.active,
                   evicted |-> Duplicates(c.sessions, reg)]
                  : e \in unregister_each(c.sessions, c.active,
                                          Duplicates(c.sessions, reg)) }
                : c \in unregister_each(sess, act, StaleSessions(sess)) }

\* register_session: the outcomes [sessions, active, mid, evicted], where mid
\* is active_session after reaping and eviction and evicted the duplicates.
register_session(sess, act, reg) ==
    UNION { { [sessions |-> MapInsert(e.sessions, reg.session_id, NewSession(reg)),
               active |-> AutoActivate(
                            MapInsert(e.sessions, reg.session_id, NewSession(reg)),
                            e.active, reg.session_id),
               mid |-> e.active,
               evicted |-> Duplicates(c.sessions, reg)]
              : e \in unregister_each(c.sessions, c.active,
                                      Duplicates(c.sessions, reg)) }
            : c \in unregister_each(sess, act, StaleSessions(sess)) }

\* Variant: only a connected session can be switched to.
switch_session_connected_only(sess, act, id) ==
    IF id \in DOMAIN sess /\ sess[id].elapsed < ConnectedSecs
    THEN [active |-> id, ok |-> TRUE]
    ELSE [active |-> act, ok |-> FALSE]

\* switch_session
switch_session(sess, act, id) ==
    IF id \in DOMAIN sess
    THEN [active |-> id, ok |-> TRUE]
    ELSE [active |-> act, ok |-> FALSE]

\* Variant: push_front instead of push_back.
queue_request_to_session_push_front(sess, chans, sid, tool, id) ==
    IF sid \notin DOMAIN sess
    THEN [ok |-> FALSE, sessions |-> sess, channels |-> chans]
    ELSE [ok |-> TRUE,
          sessions |-> [sess EXCEPT
                          ![sid].request_queue =
                              <<[id |-> id, tool |-> tool]>> \o @,
                          ![sid].notified = TRUE],
          channels |-> chans \cup {id}]

\* queue_request_to_session: None-like (ok FALSE, nothing changed) when the
\* session is absent; else the request is pushed to the back of the queue, the
\* sender is inserted under the fresh id and notify_tx sends.
queue_request_to_session(sess, chans, sid, tool, id) ==
    IF sid \notin DOMAIN sess
    THEN [ok |-> FALSE, sessions |-> sess, channels |-> chans]
    ELSE [ok |-> TRUE,
          sessions |-> [sess EXCEPT
                          ![sid].request_queue =
                              Append(@, [id |-> id, tool |-> tool]),
                          ![sid].notified = TRUE],
          channels |-> chans \cup {id}]

\* Variant: when a session is active the request goes to the first session
\* of the registry, whichever it is.
queue_request_first_key(sess, act, chans, tool, id) ==
    IF act = None \/ DOMAIN sess = {}
    THEN [ok |-> FALSE, sessions |-> sess, channels |-> chans]
    ELSE queue_request_to_session(sess, chans,
                                  CHOOSE s \in DOMAIN sess : TRUE, tool, id)

\* queue_request: to the active session, None when there is none.
queue_request(sess, act, chans, tool, id) ==
    IF act = None
    THEN [ok |-> FALSE, sessions |-> sess, channels |-> chans]
    ELSE queue_request_to_session(sess, chans, act, tool, id)

\* Variant: the front of the queue is read and left in the queue.
get_pending_request_peek(sess, sid) ==
    IF sid \in DOMAIN sess /\ sess[sid].request_queue /= <<>>
    THEN [req |-> Head(sess[sid].request_queue), sessions |-> sess]
    ELSE [req |-> [id |-> 0, tool |-> None], sessions |-> sess]

\* Variant: pop_back instead of pop_front.
get_pending_request_pop_back(sess, sid) ==
    IF sid \in DOMAIN sess /\ sess[sid].request_queue /= <<>>
    THEN LET q == sess[sid].request_queue
         IN  [req |-> q[Len(q)],
              sessions |-> [sess EXCEPT
                              ![sid].request_queue = SubSeq(q, 1, Len(q) - 1)]]
    ELSE [req |-> [id |-> 0, tool |-> None], sessions |-> sess]

\* get_pending_request_for_session: pop_front of the session's queue.
NoRequest == [id |-> 0, tool |-> None]
get_pending_request_for_session(sess, sid) ==
    IF sid \in DOMAIN sess /\ sess[sid].request_queue /= <<>>
    THEN [req |-> Head(sess[sid].request_queue),
          sessions |-> [sess EXCEPT ![sid].request_queue = Tail(@)]]
    ELSE [req |-> NoRequest, sessions |-> sess]

\* Variant: a poll refreshes the heartbeat of every session.
heartbeat_all(sess, sid) ==
    [s \in DOMAIN sess |-> [sess[s] EXCEPT !.elapsed = 0]]

\* heartbeat: last_heartbeat = Instant::now(), a no-op for an absent session.
heartbeat(sess, sid) ==
    IF sid \in DOMAIN sess THEN [sess EXCEPT ![sid].elapsed = 0] ELSE sess

\* Variant: the table is cleared on a delivery.
deliver_response_clear(chans, cs, resp) ==
    IF resp.id \in chans
    THEN [channels |-> {}, found |-> TRUE,
          ok |-> ReceiverHeld(cs[resp.id])]
    ELSE [channels |-> chans, found |-> FALSE, ok |-> FALSE]

\* Variant: a closed sender is reported and left in the table.
deliver_response_skip_closed(chans, cs, resp) ==
    IF resp.id \in chans
    THEN IF ReceiverHeld(cs[resp.id])
         THEN [channels |-> chans \ {resp.id}, found |-> TRUE, ok |-> TRUE]
         ELSE [channels |-> chans, found |-> TRUE, ok |-> FALSE]
    ELSE [channels |-> chans, found |-> FALSE, ok |-> FALSE]

\* Variant: the result of send is ignored, a found entry is a delivery.
deliver_response_ignore_send(chans, cs, resp) ==
    IF resp.id \in chans
    THEN [channels |-> chans \ {resp.id}, found |-> TRUE, ok |-> TRUE]
    ELSE [channels |-> chans, found |-> FALSE, ok |-> FALSE]

\* Variant: the result of send is inverted (is_err for is_ok).
deliver_response_is_err(chans, cs, resp) ==
    IF resp.id \in chans
    THEN [channels |-> chans \ {resp.id}, found |-> TRUE,
          ok |-> ~ReceiverHeld(cs[resp.id])]
    ELSE [channels |-> chans, found |-> FALSE, ok |-> FALSE]

\* deliver_response: the sender is removed from the table and sends; send is
\* Ok exactly when the receiver has not been dropped.
deliver_response(chans, cs, resp) ==
    IF resp.id \in chans
    THEN [channels |-> chans \ {resp.id}, found |-> TRUE,
          ok |-> ReceiverHeld(cs[resp.id])]
    ELSE [channels |-> chans, found |-> FALSE, ok |-> FALSE]

(***************************************************************************)
(* The initial state: AppState::new(), no caller, no poller.               *)
(***************************************************************************)
\* `guard` says whether the handler holds the MutexGuard of the state lock
\* while it is suspended (between two of its steps).
NoCall == [st |-> None, kind |-> None, tool |-> None, left |-> 0,
           buf |-> NoResponse, out |-> NoOutcome, guard |-> FALSE]
IdlePoller == [pc |-> "idle", sid |-> None, rx |-> None, waited |-> 0,
               guard |-> FALSE]
\* The record of an operation; connected_before says whether the active
\* session was present with a heartbeat younger than ConnectedSecs when the
\* operation began, found whether the key the operation names (the session id
\* of a registration, the request id of a response) was in its map.
Op(name, sid, rid, status) ==
    [op |-> name, sid |-> sid, rid |-> rid, status |-> status,
     mid |-> None, evicted |-> {}, active_removed |-> FALSE, found |-> FALSE,
     connected_before |-> /\ active_session \in DOMAIN sessions
                          /\ sessions[active_session].elapsed < ConnectedSecs]

\* The id send_via_proxy gives its PluginRequest (tools/mod.rs:88): a
\* Uuid::new_v4() of the proxy process, a value that is none of the ids the
\* primary mints.
ProxyUuid == MaxReq + 1

\* main.rs:54: format!("http://127.0.0.1:{}", port)
ProxyUrl(port) == <<"http://127.0.0.1", port>>

\* A process that is not running.  Of a running process: proxy_mode and
\* proxy_url are the fields of its AppState, listener says whether it holds
\* the TcpListener of the port (and serves the router on it), pending is the
\* request its forwarded call became at the primary (0: no call in flight),
\* posted the id of the PluginRequest it posted for that call, outer the
\* seconds left of the HTTP timeout of that call, last what its last
\* forwarded call returned; orphaned says whether the process that held the
\* port has exited since this one started.
NoBroker == [up |-> FALSE, listener |-> FALSE, proxy_mode |-> FALSE,
             proxy_url |-> "", pending |-> 0, posted |-> 0, tool |-> None,
             outer |-> 0,
             last |-> NoOutcome, orphaned |-> FALSE]

\* Variant: a process whose bind failed runs as a primary all the same.
main_always_primary(bound) ==
    [NoBroker EXCEPT !.up = TRUE, !.listener = bound]

\* main, the match on TcpListener::bind: Ok(listener) serves the router,
\* Err sets proxy_mode and proxy_url.
main(bound) ==
    IF bound
    THEN [NoBroker EXCEPT !.up = TRUE, !.listener = TRUE]
    ELSE [NoBroker EXCEPT !.up = TRUE, !.proxy_mode = TRUE,
                          !.proxy_url = ProxyUrl(Port)]

\* A process listens on the port: the plugin endpoints and the proxy endpoint
\* are served.
Serving == \E p \in Procs : brokers[p].listener

Init ==
    /\ brokers = [p \in Procs |-> IF p = "m1" THEN main(TRUE) ELSE NoBroker]
    /\ sessions = EmptyMap
    /\ active_session = None
    /\ response_channels = {}
    /\ calls = [id \in 1..MaxReq |-> NoCall]
    /\ next_id = 1
    /\ pollers = [p \in Pollers |-> IdlePoller]
    /\ enqueued = [s \in SessionIds |-> <<>>]
    /\ returned = [s \in SessionIds |-> <<>>]
    /\ answered = [id \in 1..MaxReq |-> <<>>]
    /\ registered_at = [s \in SessionIds |-> [enq |-> 0, ret |-> 0]]
    /\ last_op = Op("init", None, 0, None)

\* Variant: a receiver outlives its sender unnoticed.
CloseRx_stay_open(ps, gone) == ps

\* The receivers pollers hold of the sessions in `gone` (removed or replaced:
\* their notify_tx is dropped) are closed.
CloseRx(ps, gone) ==
    [p \in DOMAIN ps |->
        IF ps[p].pc = "wait" /\ ps[p].sid \in gone /\ ps[p].rx = "open"
        THEN [ps[p] EXCEPT !.rx = "closed", !.waited = 0]
        ELSE ps[p]]

\* The sessions of `before` that `after` no longer holds, or holds anew.
Gone(before, after, fresh) ==
    ((DOMAIN before) \ (DOMAIN after)) \cup ((DOMAIN before) \cap fresh)

\* state.lock().await returns once no handler holds the guard.
LockFree ==
    /\ \A p \in DOMAIN pollers : ~pollers[p].guard
    /\ \A id \in DOMAIN calls : ~calls[id].guard

(***************************************************************************)
(* Plugin-facing endpoints (src/src/server.rs).                            *)
(***************************************************************************)

\* POST /register
handle_register(reg) ==
    /\ LockFree
    /\ UNCHANGED brokers
    /\ \E o \in register_session(sessions, active_session, reg) :
           /\ sessions' = o.sessions
           /\ active_session' = o.active
           /\ response_channels' = RetainOpen(response_channels, calls)
           /\ pollers' = CloseRx(pollers, Gone(sessions, o.sessions, {reg.session_id}))
           /\ last_op' = [Op("register", reg.session_id, 0, "200") EXCEPT
                             !.mid = o.mid, !.evicted = o.evicted,
                             !.active_removed = (active_session \in o.evicted),
                             !.found = (reg.session_id \in DOMAIN sessions)]
           /\ registered_at' = [registered_at EXCEPT ![reg.session_id] =
                                   [enq |-> Len(enqueued[reg.session_id]),
                                    ret |-> Len(returned[reg.session_id])]]
           /\ UNCHANGED <<calls, next_id, enqueued, returned, answered>>

\* POST /unregister
handle_unregister(id) ==
    /\ LockFree
    /\ UNCHANGED brokers
    /\ \E o \in unregister_session(sessions, active_session, id) :
           /\ sessions' = o.sessions
           /\ active_session' = o.active
           /\ pollers' = CloseRx(pollers, Gone(sessions, o.sessions, {}))
           /\ last_op' = [Op("unregister", None, 0, "200") EXCEPT
                             !.active_removed = (active_session = id)]
           /\ UNCHANGED <<response_channels, calls, next_id, enqueued, returned,
                          answered, registered_at>>

\* POST /switch_session, and the switch_session tool in direct mode
handle_switch_session(id) ==
    /\ LockFree
    /\ UNCHANGED brokers
    /\ LET r == switch_session(sessions, active_session, id)
       IN  /\ active_session' = r.active
           /\ last_op' = Op("switch", None, 0, IF r.ok THEN "true" ELSE "false")
           /\ UNCHANGED <<sessions, response_channels, calls, next_id, pollers,
                          enqueued, returned, answered, registered_at>>

\* Variant: the enqueue does not signal the receivers that already wait.
WakeRx_lost(ps, sid) == ps

\* The pollers waiting on session sid's receiver see the version change.
WakeRx(ps, sid) ==
    [p \in DOMAIN ps |->
        IF ps[p].pc = "wait" /\ ps[p].sid = sid /\ ps[p].rx = "open"
        THEN [ps[p] EXCEPT !.rx = "changed", !.waited = 0]
        ELSE ps[p]]

\* GET /request, the first critical section: heartbeat, then the immediate pop.
handle_poll_request(p, sid) ==
    /\ LockFree
    /\ UNCHANGED brokers
    /\ /\ pollers[p].pc = "idle"
       /\ LET r == get_pending_request_for_session(heartbeat(sessions, sid), sid)
          IN  /\ sessions' = r.sessions
              /\ IF r.req /= NoRequest
                 THEN /\ pollers' = pollers
                      /\ returned' = [returned EXCEPT ![sid] = Append(@, r.req.id)]
                      /\ last_op' = Op("poll", None, 0, "200")
                 ELSE /\ pollers' = [pollers EXCEPT ![p].pc = "fetch", ![p].sid = sid]
                      /\ returned' = returned
                      /\ last_op' = Op("poll", None, 0, None)
       /\ UNCHANGED <<active_session, response_channels, calls, next_id, enqueued,
                      answered, registered_at>>

\* GET /request, the second critical section: get_session_notify_rx.  A clone
\* of the stored receiver has seen only the channel's first version.
handle_poll_request_rx(p) ==
    /\ LockFree
    /\ UNCHANGED brokers
    /\ /\ pollers[p].pc = "fetch"
       /\ LET sid == pollers[p].sid
          IN  IF sid \in DOMAIN sessions
              THEN /\ pollers' = [pollers EXCEPT
                                    ![p].pc = "wait",
                                    ![p].rx = IF sessions[sid].notified
                                              THEN "changed" ELSE "open"]
                   /\ last_op' = Op("poll", None, 0, None)
              ELSE /\ pollers' = [pollers EXCEPT ![p] = IdlePoller]
                   /\ last_op' = Op("poll", None, 0, "404")
       /\ UNCHANGED <<sessions, active_session, response_channels, calls, next_id,
                      enqueued, returned, answered, registered_at>>

\* GET /request, after timeout(30s, notify_rx.changed()): Ok(Ok(())) pops under
\* the lock; a dropped sender (Ok(Err)) and the timeout reply 204.
handle_poll_request_wake(p) ==
    /\ pollers[p].pc = "wait"
    /\ UNCHANGED brokers
    /\ LET sid == pollers[p].sid
           r == get_pending_request_for_session(sessions, sid)
       IN  \/ /\ pollers[p].rx = "changed"
              /\ LockFree
              /\ sessions' = r.sessions
              /\ IF r.req /= NoRequest
                 THEN /\ returned' = [returned EXCEPT ![sid] = Append(@, r.req.id)]
                      /\ last_op' = Op("poll", None, 0, "200")
                 ELSE /\ returned' = returned
                      /\ last_op' = Op("poll", None, 0, "204")
           \/ /\ \/ pollers[p].rx = "closed"
                 \/ pollers[p].rx = "open" /\ pollers[p].waited >= PollWaitSecs
              /\ last_op' = Op("poll", None, 0, "204")
              /\ UNCHANGED <<sessions, returned>>
    /\ pollers' = [pollers EXCEPT ![p] = IdlePoller]
    /\ UNCHANGED <<active_session, response_channels, calls, next_id, enqueued,
                   answered, registered_at>>

\* The plugin learns a request id (a random uuid) only from a poll's reply.
Polled(id) == \E s \in SessionIds : \E i \in 1..Len(returned[s]) : returned[s][i] = id

\* POST /response
handle_plugin_response(resp) ==
    /\ LockFree
    /\ UNCHANGED brokers
    /\ /\ Polled(resp.id)
       /\ LET d == deliver_response(response_channels, calls, resp)
          IN  /\ response_channels' = d.channels
              /\ calls' = IF d.ok
                          THEN [calls EXCEPT ![resp.id].buf = resp]
                          ELSE calls
              /\ answered' = IF d.ok
                             THEN [answered EXCEPT ![resp.id] = Append(@, resp)]
                             ELSE answered
              /\ last_op' = [Op("respond", None, resp.id,
                                 IF d.ok THEN "200" ELSE "404") EXCEPT
                                !.found = d.found]
       /\ UNCHANGED <<sessions, active_session, next_id, pollers, enqueued,
                      returned, registered_at>>

(***************************************************************************)
(* The dispatcher (src/src/tools/mod.rs) and the proxy endpoint.           *)
(***************************************************************************)

\* Variant: the guard is bound outside the block and lives across the wait.
Waiting_holding_lock(kind, tool, secs) ==
    [st |-> "waiting", kind |-> kind, tool |-> tool, left |-> secs,
     buf |-> NoResponse, out |-> NoOutcome, guard |-> TRUE]

\* A caller that holds the receiver of request id and waits up to `secs`; the
\* block that took the lock has ended, the guard is dropped.
Waiting(kind, tool, secs) ==
    [st |-> "waiting", kind |-> kind, tool |-> tool, left |-> secs,
     buf |-> NoResponse, out |-> NoOutcome, guard |-> FALSE]

\* send_to_plugin in direct mode, the critical section: the connectedness
\* check, then queue_request.
send_to_plugin(tool, secs) ==
    /\ LockFree
    /\ UNCHANGED brokers
    /\ IF ~is_plugin_connected(sessions, active_session)
       THEN /\ last_op' = Op("send", None, 0, "PluginNotConnected")
            /\ UNCHANGED <<sessions, active_session, response_channels, calls,
                           next_id, pollers, enqueued, returned, answered, registered_at>>
       ELSE /\ next_id <= MaxReq
            /\ LET q == queue_request(sessions, active_session, response_channels,
                                      tool, next_id)
               IN  IF q.ok
                   THEN /\ sessions' = q.sessions
                        /\ response_channels' = q.channels
                        /\ calls' = [calls EXCEPT ![next_id] =
                                       Waiting("direct", tool, secs)]
                        /\ next_id' = next_id + 1
                        /\ pollers' = WakeRx(pollers, active_session)
                        /\ enqueued' = [enqueued EXCEPT
                                           ![active_session] = Append(@, next_id)]
                        /\ last_op' = Op("send", None, 0, "queued")
                        /\ UNCHANGED <<active_session, returned, answered, registered_at>>
                   ELSE /\ last_op' = Op("send", None, 0, "PluginError")
                        /\ UNCHANGED <<sessions, active_session, response_channels,
                                       calls, next_id, pollers, enqueued, returned,
                                       answered, registered_at>>

\* POST /proxy/tool_call, the critical section: 503 when active_session is
\* None or queue_request returns None; the request's own id is not used.
\* What the handler does to the primary's state.
proxy_tool_call(tool) ==
    /\ LockFree
    /\ IF active_session = None
       THEN /\ last_op' = Op("proxy", None, 0, "503")
            /\ UNCHANGED <<sessions, active_session, response_channels, calls,
                           next_id, pollers, enqueued, returned, answered, registered_at>>
       ELSE /\ next_id <= MaxReq
            /\ LET q == queue_request(sessions, active_session, response_channels,
                                      tool, next_id)
               IN  IF q.ok
                   THEN /\ sessions' = q.sessions
                        /\ response_channels' = q.channels
                        /\ calls' = [calls EXCEPT ![next_id] =
                                       Waiting("proxy", tool, ProxyWaitSecs)]
                        /\ next_id' = next_id + 1
                        /\ pollers' = WakeRx(pollers, active_session)
                        /\ enqueued' = [enqueued EXCEPT
                                           ![active_session] = Append(@, next_id)]
                        /\ last_op' = Op("proxy", None, 0, "queued")
                        /\ UNCHANGED <<active_session, returned, answered, registered_at>>
                   ELSE /\ last_op' = Op("proxy", None, 0, "503")
                        /\ UNCHANGED <<sessions, active_session, response_channels,
                                       calls, next_id, pollers, enqueued, returned,
                                       answered, registered_at>>

\* POST /proxy/tool_call from a client that is not one of the brokers.
handle_proxy_tool_call(tool) ==
    /\ proxy_tool_call(tool)
    /\ UNCHANGED brokers

\* Variant: a wait that ends without a response is reported as a plugin that
\* is not connected.
AwaitOutcome_not_connected(c, has_sender) ==
    IF c.buf /= NoResponse
    THEN IF c.kind = "proxy" THEN Outcome("200", c.buf.body)
         ELSE IF c.buf.success THEN Outcome("Ok", c.buf.body)
         ELSE Outcome("PluginError", c.buf.body)
    ELSE IF c.kind = "proxy" THEN Outcome("503", None)
         ELSE Outcome("PluginNotConnected", None)

\* Variant: the timer is looked at before the receiver.
AwaitOutcome_timer_first(c, has_sender) ==
    IF c.left = 0
    THEN IF c.kind = "proxy" THEN Outcome("504", None)
         ELSE Outcome("RequestTimeout", c.tool)
    ELSE IF c.buf /= NoResponse
    THEN IF c.kind = "proxy" THEN Outcome("200", c.buf.body)
         ELSE IF c.buf.success THEN Outcome("Ok", c.buf.body)
         ELSE Outcome("PluginError", c.buf.body)
    ELSE IF c.kind = "proxy" THEN Outcome("504", None)
         ELSE Outcome("PluginError", "Response channel closed")

\* What the caller makes of timeout(t, rx.recv()).  The receiver is polled
\* before the timer: a buffered response wins over an elapsed timeout.
\* Ok(None) is a channel closed with nothing buffered.
AwaitOutcome(c, has_sender) ==
    IF c.buf /= NoResponse
    THEN IF c.kind = "proxy" THEN Outcome("200", c.buf.body)
         ELSE IF c.buf.success THEN Outcome("Ok", c.buf.body)
         ELSE Outcome("PluginError", c.buf.body)
    ELSE IF ~has_sender
    THEN IF c.kind = "proxy" THEN Outcome("504", None)
         ELSE Outcome("PluginError", "Response channel closed")
    ELSE IF c.kind = "proxy" THEN Outcome("504", None)
         ELSE Outcome("RequestTimeout", c.tool)

\* timeout(t, rx.recv()).await resolves, outside the lock: the caller has its
\* outcome and still holds the receiver.
await_response(id) ==
    /\ calls[id].st = "waiting"
    /\ UNCHANGED brokers
    /\ \/ calls[id].buf /= NoResponse
       \/ id \notin response_channels
       \/ calls[id].left = 0
    /\ calls' = [calls EXCEPT
                   ![id].st = "resolved",
                   ![id].left = 0,
                   ![id].out = AwaitOutcome(calls[id], id \in response_channels)]
    /\ last_op' = Op("return", None, 0, None)
    /\ UNCHANGED <<sessions, active_session, response_channels, next_id,
                   pollers, enqueued, returned, answered, registered_at>>

\* The caller returns its outcome; the receiver is dropped, the sender closed.
drop_receiver(id) ==
    /\ calls[id].st = "resolved"
    /\ UNCHANGED brokers
    /\ calls' = [calls EXCEPT ![id].st = "done"]
    /\ last_op' = Op("return", None, 0, None)
    /\ UNCHANGED <<sessions, active_session, response_channels, next_id,
                   pollers, enqueued, returned, answered, registered_at>>

(***************************************************************************)
(* The broker processes (src/src/main.rs) and the proxy mode of the        *)
(* dispatcher.  The variables of AppState above are the state of the       *)
(* process that holds the port.                                            *)
(***************************************************************************)

\* The variables of the AppState that is served, and their history.
served == <<sessions, active_session, response_channels, calls, next_id,
            pollers, enqueued, returned, answered, registered_at>>

\* main: TcpListener::bind succeeds exactly when no process holds the port.
start(p) ==
    /\ ~brokers[p].up
    /\ brokers' = [brokers EXCEPT ![p] = main(~Serving)]
    /\ last_op' = Op("start", None, 0, IF Serving THEN "proxy" ELSE "primary")
    /\ UNCHANGED served

\* The process ends (its MCP transport closes, or it is killed).  With the
\* process that holds the port its AppState, its handlers and its callers are
\* gone, and every call forwarded to it fails in the transport.
exit(p) ==
    /\ brokers[p].up
    /\ last_op' = Op("exit", None, 0, None)
    /\ IF brokers[p].listener
       THEN /\ sessions' = EmptyMap
            /\ active_session' = None
            /\ response_channels' = {}
            /\ calls' = [id \in 1..MaxReq |-> NoCall]
            /\ next_id' = 1
            /\ pollers' = [q \in Pollers |-> IdlePoller]
            /\ enqueued' = [s \in SessionIds |-> <<>>]
            /\ returned' = [s \in SessionIds |-> <<>>]
            /\ answered' = [id \in 1..MaxReq |-> <<>>]
            /\ registered_at' = [s \in SessionIds |-> [enq |-> 0, ret |-> 0]]
            /\ brokers' = [q \in Procs |->
                  IF q = p \/ ~brokers[q].up THEN NoBroker
                  ELSE [brokers[q] EXCEPT
                          !.orphaned = TRUE, !.pending = 0, !.posted = 0,
                          !.outer = 0,
                          !.last = IF brokers[q].pending /= 0
                                   THEN Outcome("PluginError", "Proxy request failed")
                                   ELSE @]]
       ELSE /\ brokers' = [brokers EXCEPT ![p] = NoBroker]
            /\ UNCHANGED served

\* send_via_proxy, the POST of the PluginRequest: the process that listens on
\* proxy_url runs its proxy handler, which reads the tool (and the args) of
\* the request; with no listener the connection is refused.
send_via_proxy(p, tool, timeout) ==
    /\ brokers[p].pending = 0
    /\ IF Serving
       THEN /\ proxy_tool_call([id |-> ProxyUuid, tool |-> tool].tool)
            /\ brokers' = [brokers EXCEPT ![p] =
                  IF last_op'.status = "queued"
                  THEN [@ EXCEPT !.pending = next_id, !.tool = tool,
                                 !.posted = ProxyUuid,
                                 !.outer = timeout + ProxySlackSecs,
                                 !.last = NoOutcome]
                  ELSE [@ EXCEPT !.last = Outcome("PluginNotConnected", None)]]
       ELSE /\ brokers' = [brokers EXCEPT ![p].last =
                              Outcome("PluginError", "Proxy request failed")]
            /\ last_op' = Op("forward", None, 0, "refused")
            /\ UNCHANGED served

\* send_via_proxy, after the POST: the reply of the primary's handler (503
\* was answered at once; 504 is RequestTimeout, any other reply is parsed as
\* the PluginResponse), or the HTTP timeout of the client.
send_via_proxy_reply(p) ==
    /\ brokers[p].pending /= 0
    /\ LET id == brokers[p].pending
           c == calls[id]
           out == IF c.st = "done"
                  THEN IF c.out.kind = "504"
                       THEN Outcome("RequestTimeout", brokers[p].tool)
                       ELSE IF c.buf.success THEN Outcome("Ok", c.buf.body)
                       ELSE Outcome("PluginError", c.buf.body)
                  ELSE Outcome("PluginError", "Proxy request failed")
       IN  /\ c.st = "done" \/ brokers[p].outer = 0
           /\ brokers' = [brokers EXCEPT ![p].pending = 0, ![p].posted = 0,
                                         ![p].outer = 0, ![p].last = out]
           /\ last_op' = Op("forward", None, id, out.kind)
    /\ UNCHANGED served

\* Variant: a proxy forwards only while a primary listens, and falls back to
\* its direct mode when there is none.
proxy_mode_failover(b) == b.proxy_mode /\ Serving

\* send_to_plugin, the check of proxy_mode (tools/mod.rs:39-46).
proxy_mode(b) == b.proxy_mode

\* A tool of process p calls send_to_plugin.
tool_call(p, tool, timeout) ==
    /\ brokers[p].up
    /\ IF proxy_mode(brokers[p])
       THEN send_via_proxy(p, tool, timeout)
       ELSE send_to_plugin(tool, timeout)

\* The switch_session tool of process p (tools/session.rs): in proxy mode a
\* POST /switch_session to proxy_url, else the switch on its own state.
switch_session_tool(p, id) ==
    /\ brokers[p].up
    /\ IF proxy_mode(brokers[p]) /\ ~Serving
       THEN /\ last_op' = Op("forward", None, 0, "refused")
            /\ UNCHANGED <<served, brokers>>
       ELSE handle_switch_session(id)

(***************************************************************************)
(* Time.                                                                   *)
(***************************************************************************)
\* d seconds pass: every heartbeat ages, every running timer comes d seconds
\* closer to its deadline.
TickBy(d) ==
    /\ sessions' = [s \in DOMAIN sessions |->
                      [sessions[s] EXCEPT
                          !.elapsed = Min(MaxAge, @ + d)]]
    /\ calls' = [id \in DOMAIN calls |->
                    IF calls[id].st = "waiting"
                    THEN [calls[id] EXCEPT !.left = Max(0, @ - d)]
                    ELSE calls[id]]
    /\ pollers' = [p \in DOMAIN pollers |->
                    IF pollers[p].pc = "wait" /\ pollers[p].rx = "open"
                    THEN [pollers[p] EXCEPT
                            !.waited = Min(PollWaitSecs, @ + d)]
                    ELSE pollers[p]]
    /\ brokers' = [p \in DOMAIN brokers |->
                    IF brokers[p].pending /= 0
                    THEN [brokers[p] EXCEPT !.outer = Max(0, @ - d)]
                    ELSE brokers[p]]
    /\ last_op' = Op("tick", None, 0, None)
    /\ UNCHANGED <<active_session, response_channels, next_id, enqueued,
                   returned, answered, registered_at>>

Tick == TickBy(TickSecs)

\* The broker over a stretch of time in which no heartbeat ages past a
\* threshold: every operation, for the sessions A and B.
Next ==
    \/ \E reg \in RegistrationsAB : handle_register(reg)
    \/ \E id \in SessionsAB : handle_unregister(id)
    \/ \E id \in SessionsAB : handle_switch_session(id)
    \/ \E p \in Pollers : \E sid \in SessionsAB : handle_poll_request(p, sid)
    \/ \E p \in Pollers : handle_poll_request_rx(p)
    \/ \E p \in Pollers : handle_poll_request_wake(p)
    \/ \E resp \in PluginResponse : handle_plugin_response(resp)
    \/ \E tool \in Tools : \E secs \in Timeouts : send_to_plugin(tool, secs)
    \/ \E id \in 1..MaxReq : await_response(id)
    \/ \E id \in 1..MaxReq : drop_receiver(id)

Spec == Init /\ [][Next]_vars

\* The session registry over time, with three sessions; tools are called only
\* while no plugin is connected.
NextSessions ==
    \/ \E reg \in Registrations : handle_register(reg)
    \/ \E id \in SessionIds : handle_unregister(id)
    \/ \E id \in SessionIds : handle_switch_session(id)
    \/ \E p \in Pollers : \E sid \in SessionIds : handle_poll_request(p, sid)
    \/ \E p \in Pollers : handle_poll_request_rx(p)
    \/ \E p \in Pollers : handle_poll_request_wake(p)
    \/ \E tool \in Tools : \E secs \in Timeouts :
          ~is_plugin_connected(sessions, active_session) /\ send_to_plugin(tool, secs)
    \/ Tick

SpecSessions == Init /\ [][NextSessions]_vars

\* Time passes; nothing makes a plugin register, poll or unregister.
FairSessions == WF_vars(Tick)

SpecSessionsFair == Init /\ [][NextSessions]_vars /\ FairSessions

\* The primary serving its own client and a proxy over time: one plugin
\* session, tool calls in direct mode and tool calls forwarded to
\* POST /proxy/tool_call.
NextProxy ==
    \/ handle_register(Reg("A", 1, "P"))
    \/ \E p \in Pollers : handle_poll_request(p, "A")
    \/ \E p \in Pollers : handle_poll_request_rx(p)
    \/ \E p \in Pollers : handle_poll_request_wake(p)
    \/ \E resp \in PluginResponse : handle_plugin_response(resp)
    \/ \E tool \in Tools : handle_proxy_tool_call(tool)
    \/ \E tool \in Tools : send_to_plugin(tool, DefaultTimeoutSecs)
    \/ \E id \in 1..MaxReq : await_response(id)
    \/ \E id \in 1..MaxReq : drop_receiver(id)
    \/ Tick

SpecProxy == Init /\ [][NextProxy]_vars

\* Routing over time: two sessions, tool calls in direct mode, no responses.
NextRouting ==
    \/ \E reg \in RegistrationsAB : handle_register(reg)
    \/ \E id \in SessionsAB : handle_unregister(id)
    \/ \E id \in SessionsAB : handle_switch_session(id)
    \/ \E p \in Pollers : \E sid \in SessionsAB : handle_poll_request(p, sid)
    \/ \E p \in Pollers : handle_poll_request_rx(p)
    \/ \E p \in Pollers : handle_poll_request_wake(p)
    \/ \E tool \in Tools : \E secs \in Timeouts : send_to_plugin(tool, secs)
    \/ Tick

SpecRouting == Init /\ [][NextRouting]_vars

\* Time passes, and the runtime schedules every poll that can take its next
\* step (the lock is free, its receiver is signalled or closed, or its 30
\* seconds have elapsed).
FairRouting ==
    /\ WF_vars(Tick)
    /\ \A p \in Pollers :
          /\ WF_vars(handle_poll_request_rx(p))
          /\ WF_vars(handle_poll_request_wake(p))

SpecRoutingFair == Init /\ [][NextRouting]_vars /\ FairRouting

\* One plugin session over time: tool calls in direct mode with the default
\* timeout, polls, responses, the callers' waits.
NextTimed ==
    \/ handle_register(Reg("A", 1, "P"))
    \/ \E p \in Pollers : handle_poll_request(p, "A")
    \/ \E p \in Pollers : handle_poll_request_rx(p)
    \/ \E p \in Pollers : handle_poll_request_wake(p)
    \/ \E resp \in PluginResponse : handle_plugin_response(resp)
    \/ \E tool \in Tools : send_to_plugin(tool, DefaultTimeoutSecs)
    \/ \E id \in 1..MaxReq : await_response(id)
    \/ \E id \in 1..MaxReq : drop_receiver(id)
    \/ Tick

SpecTimed == Init /\ [][NextTimed]_vars

\* Time passes, and the runtime schedules every caller whose wait can resolve.
FairTimed ==
    /\ WF_vars(Tick)
    /\ \A id \in 1..MaxReq :
          /\ WF_vars(await_response(id))
          /\ WF_vars(drop_receiver(id))

SpecTimedFair == Init /\ [][NextTimed]_vars /\ FairTimed

\* Polls of a known session with no enqueue while a poll is in progress: the
\* session is registered once and stays, tools are called only while no poll
\* is in progress.
NextPoll ==
    \/ "A" \notin DOMAIN sessions /\ handle_register(Reg("A", 1, "P"))
    \/ \E p \in Pollers : handle_poll_request(p, "A")
    \/ \E p \in Pollers : handle_poll_request_rx(p)
    \/ \E p \in Pollers : handle_poll_request_wake(p)
    \/ \E tool \in Tools : \E secs \in Timeouts :
          (\A p \in Pollers : pollers[p].pc = "idle") /\ send_to_plugin(tool, secs)
    \/ \E resp \in PluginResponse : handle_plugin_response(resp)
    \/ \E id \in 1..MaxReq : await_response(id)
    \/ \E id \in 1..MaxReq : drop_receiver(id)
    \/ Tick

SpecPoll == Init /\ [][NextPoll]_vars

\* A request is queued for session s.
Queued(s) == s \in DOMAIN sessions /\ sessions[s].request_queue /= <<>>

\* The broker processes: they start, forward or serve tool calls, and exit;
\* the plugin talks to whichever process listens on the port, and polls when
\* a request is queued for it.
NextBrokers ==
    \/ \E p \in Procs : start(p)
    \/ \E p \in Procs : exit(p)
    \/ Serving /\ handle_register(Reg("A", 1, "P"))
    \/ \E q \in Pollers :
          Serving /\ Queued("A") /\ handle_poll_request(q, "A")
    \/ \E resp \in PluginResponse : Serving /\ handle_plugin_response(resp)
    \/ \E p \in Callers : \E tool \in Tools : tool_call(p, tool, DefaultTimeoutSecs)
    \/ \E p \in Callers : send_via_proxy_reply(p)
    \/ \E p \in Callers : switch_session_tool(p, "A")
    \/ \E id \in 1..MaxReq : await_response(id)
    \/ \E id \in 1..MaxReq : drop_receiver(id)

SpecBrokers == Init /\ [][NextBrokers]_vars

\* No timer is past its deadline: the runtime wakes a task whose timer has
\* elapsed before the clock moves on.
NoTimerDue ==
    /\ \A id \in 1..MaxReq : calls[id].st = "waiting" => calls[id].left > 0
    /\ \A p \in Procs : brokers[p].pending /= 0 => brokers[p].outer > 0
    /\ \A q \in Pollers :
          (pollers[q].pc = "wait" /\ pollers[q].rx = "open")
              => pollers[q].waited < PollWaitSecs

\* A primary and a proxy over time, the clock in steps of ProxySlackSecs: the
\* tools of the proxy call with the default and with the extended timeout,
\* the plugin polls when a request is queued for it.
NextForward ==
    \/ start("m2")
    \/ "A" \notin DOMAIN sessions /\ handle_register(Reg("A", 1, "P"))
    \/ \E q \in Pollers : Queued("A") /\ handle_poll_request(q, "A")
    \/ \E resp \in PluginResponse : handle_plugin_response(resp)
    \/ \E tool \in Tools : \E timeout \in CallerTimeouts :
          tool_call("m2", tool, timeout)
    \/ send_via_proxy_reply("m2")
    \/ \E id \in 1..MaxReq : await_response(id)
    \/ \E id \in 1..MaxReq : drop_receiver(id)
    \/ NoTimerDue /\ TickBy(ProxySlackSecs)

SpecForward == Init /\ [][NextForward]_vars

\* Sessions that come and go while callers wait: two sessions, tool calls in
\* direct mode with the default timeout, a plugin that polls when a request
\* is queued for it and never answers.
NextDropped ==
    \/ \E reg \in RegistrationsAB : handle_register(reg)
    \/ \E id \in SessionsAB : handle_unregister(id)
    \/ \E p \in Pollers : \E sid \in SessionsAB :
          Queued(sid) /\ handle_poll_request(p, sid)
    \/ \E tool \in Tools : send_to_plugin(tool, DefaultTimeoutSecs)
    \/ \E id \in 1..MaxReq : await_response(id)
    \/ \E id \in 1..MaxReq : drop_receiver(id)
    \/ Tick

SpecDropped == Init /\ [][NextDropped]_vars

\* Two polls of one session at a time (a plugin that polls again before its
\* previous poll has replied, or two plugins that poll under one session id),
\* with tool calls in direct mode.
TwoPollers == {"p1", "p2"}
InitPollers ==
    /\ brokers = [p \in Procs |-> IF p = "m1" THEN main(TRUE) ELSE NoBroker]
    /\ sessions = EmptyMap
    /\ active_session = None
    /\ response_channels = {}
    /\ calls = [id \in 1..MaxReq |-> NoCall]
    /\ next_id = 1
    /\ pollers = [p \in TwoPollers |-> IdlePoller]
    /\ enqueued = [s \in SessionIds |-> <<>>]
    /\ returned = [s \in SessionIds |-> <<>>]
    /\ answered = [id \in 1..MaxReq |-> <<>>]
    /\ registered_at = [s \in SessionIds |-> [enq |-> 0, ret |-> 0]]
    /\ last_op = Op("init", None, 0, None)

NextPollers ==
    \/ handle_register(Reg("A", 1, "P"))
    \/ \E p \in TwoPollers : handle_poll_request(p, "A")
    \/ \E p \in TwoPollers : handle_poll_request_rx(p)
    \/ \E p \in TwoPollers : handle_poll_request_wake(p)
    \/ \E tool \in Tools : \E secs \in Timeouts : send_to_plugin(tool, secs)

SpecPollers == InitPollers /\ [][NextPollers]_vars

\* The happy path: one plugin session that is registered once and stays, a
\* plugin that keeps polling and answers what it received, and a stretch of
\* time shorter than the timeouts and the heartbeat threshold.
NextHappy ==
    \/ "A" \notin DOMAIN sessions /\ handle_register(Reg("A", 1, "P"))
    \/ \E p \in Pollers : handle_poll_request(p, "A")
    \/ \E p \in Pollers : handle_poll_request_rx(p)
    \/ \E p \in Pollers : handle_poll_request_wake(p)
    \/ \E resp \in PluginResponse : handle_plugin_response(resp)
    \/ \E tool \in Tools : send_to_plugin(tool, DefaultTimeoutSecs)
    \/ \E id \in 1..MaxReq : await_response(id)
    \/ \E id \in 1..MaxReq : drop_receiver(id)

\* The plugin's poll loop runs, it posts a response for every id it received,
\* and the runtime schedules every caller whose wait can resolve.
FairHappy ==
    /\ \A p \in Pollers :
          /\ WF_vars(handle_poll_request(p, "A"))
          /\ WF_vars(handle_poll_request_rx(p))
          /\ WF_vars(handle_poll_request_wake(p))
    /\ \A id \in 1..MaxReq :
          /\ WF_vars(\E resp \in PluginResponse :
                        resp.id = id /\ handle_plugin_response(resp))
          /\ WF_vars(await_response(id))
          /\ WF_vars(drop_receiver(id))

SpecHappy == Init /\ [][NextHappy]_vars /\ FairHappy

(***************************************************************************)
(* Properties.                                                             *)
(***************************************************************************)
IsPrefix(a, b) ==
    Len(a) <= Len(b) /\ \A i \in 1..Len(a) : a[i] = b[i]
\* seq without its first n elements
Since(seq, n) == SubSeq(seq, n + 1, Len(seq))
Elems(seq) == {seq[i] : i \in 1..Len(seq)}
\* a is b with some elements left out: each element of a occurs in b, and in
\* the same order (the elements of b are distinct request ids).
IsSubsequence(a, b) ==
    /\ Elems(a) \subseteq Elems(b)
    /\ \A i, j \in 1..Len(a) :
          i < j => \E k, l \in 1..Len(b) : k < l /\ b[k] = a[i] /\ b[l] = a[j]
QueueIds(s) ==
    IF s \in DOMAIN sessions
    THEN [i \in 1..Len(sessions[s].request_queue) |-> sessions[s].request_queue[i].id]
    ELSE <<>>
SamePlace(x, y) == x.place_id = y.place_id /\ x.place_name = y.place_name
\* What the caller of kind `kind` returns for the response resp.
Expected(kind, resp) ==
    IF kind = "proxy" THEN Outcome("200", resp.body)
    ELSE IF resp.success THEN Outcome("Ok", resp.body)
    ELSE Outcome("PluginError", resp.body)

\* C1: in every reachable state active_session is unset or the id of a session
\* in the registry; so is_plugin_connected() implies active_session is in
\* sessions.
C1_ActivePresent ==
    /\ active_session = None \/ active_session \in DOMAIN sessions
    /\ is_plugin_connected(sessions, active_session)
          => active_session \in DOMAIN sessions

\* The active session was unregistered while others were present, and
\* active_session was reassigned.
C1_Witness ==
    /\ last_op.op = "unregister"
    /\ last_op.active_removed
    /\ active_session /= None
    /\ active_session \in DOMAIN sessions

\* C2 as stated: for every session id, at every point, the requests polls
\* have returned for it are a prefix of the requests enqueued on it, also
\* across unregistration and re-registration under the same id.
C2_PrefixAcrossRegistrations ==
    \A s \in SessionIds : IsPrefix(returned[s], enqueued[s])

\* C2 as amended: for every session id, the requests polls have returned for
\* it since its latest registration are a prefix of the requests enqueued on
\* it since that registration, and what remains of them is its queue; over the
\* whole execution the returned requests are a subsequence of the enqueued
\* ones (requests queued when the session is removed or replaced are dropped).
C2_PrefixSinceRegistration ==
    \A s \in SessionIds :
        /\ IsPrefix(Since(returned[s], registered_at[s].ret),
                    Since(enqueued[s], registered_at[s].enq))
        /\ IsSubsequence(returned[s], enqueued[s])
        /\ s \in DOMAIN sessions =>
              Since(enqueued[s], registered_at[s].enq)
                  = Since(returned[s], registered_at[s].ret) \o QueueIds(s)

\* A session was registered again while a request was queued on it, and a poll
\* then returned a request enqueued after that registration.
C2_Witness ==
    \E s \in SessionIds :
        /\ registered_at[s].enq > registered_at[s].ret
        /\ Len(returned[s]) > registered_at[s].ret

\* C3: for every request id at most one /response is answered 200; a caller
\* returns a response only if it is the one answered 200 for its own id; and
\* whenever /response is answered 200 for an id, the caller of that request
\* holds that response or has returned its result or error (it does not
\* return RequestTimeout).
C3_ExactlyOnce ==
    \A id \in 1..MaxReq :
        /\ Len(answered[id]) <= 1
        /\ calls[id].out.kind \in {"Ok", "PluginError", "200"} =>
              /\ answered[id] /= <<>>
              /\ answered[id][1].id = id
        /\ answered[id] /= <<>> =>
              \/ calls[id].st = "waiting" /\ calls[id].buf = answered[id][1]
              \/ /\ calls[id].st \in {"resolved", "done"}
                 /\ calls[id].out = Expected(calls[id].kind, answered[id][1])

\* C4: the live correlation entries have distinct ids, each enqueue adds one
\* entry under an id that had none, and a deliver removes the entry keyed by
\* response.id, exactly one when it is found, and no other.
C4_CorrelationUnique ==
    /\ [](response_channels \subseteq 1..(next_id - 1))
    /\ [][/\ last_op'.status = "queued" =>
                /\ next_id \notin response_channels
                /\ response_channels' = response_channels \cup {next_id}
          /\ last_op'.op = "respond" =>
                /\ response_channels' = response_channels \ {last_op'.rid}
                /\ last_op'.found = (last_op'.rid \in response_channels)
                /\ last_op'.found =>
                      Cardinality(response_channels')
                          = Cardinality(response_channels) - 1]_vars

\* A deliver found its entry and removed it while another entry stayed live.
C4_Witness ==
    /\ last_op.op = "respond"
    /\ last_op.found
    /\ response_channels /= {}

\* C5: once the send of a request has timed out, a response carrying its id
\* is received by no caller (no caller's outcome changes), changes no session,
\* queue or active_session, and leaves no correlation entry for that id.
C5_NoResponseLeak ==
    [][(/\ last_op'.op = "respond"
        /\ calls[last_op'.rid].out.kind = "RequestTimeout")
        => /\ \A id \in 1..MaxReq :
                 /\ calls'[id].st = calls[id].st
                 /\ calls'[id].out = calls[id].out
           /\ sessions' = sessions
           /\ active_session' = active_session
           /\ last_op'.rid \notin response_channels']_vars

\* A response arrived for a request whose caller had returned RequestTimeout
\* and whose entry was still in the table (not yet swept).
C5_Witness ==
    /\ last_op.op = "respond"
    /\ last_op.found
    /\ calls[last_op.rid].st = "done"
    /\ calls[last_op.rid].out.kind = "RequestTimeout"
    /\ last_op.rid \notin response_channels

\* C6: when the plugin never answered a request and its caller has returned
\* RequestTimeout, a response for that id posted afterwards to /response is
\* answered 404.
C6_LateResponse404 ==
    (/\ last_op.op = "respond"
     /\ calls[last_op.rid].st = "done"
     /\ calls[last_op.rid].out.kind = "RequestTimeout")
        => last_op.status = "404"

\* The request was polled and never answered, its caller returned
\* RequestTimeout, and the response posted afterwards got 404.
C6_Witness ==
    /\ last_op.op = "respond"
    /\ last_op.status = "404"
    /\ calls[last_op.rid].kind = "direct"
    /\ calls[last_op.rid].st = "done"
    /\ calls[last_op.rid].out = Outcome("RequestTimeout", "run_code")
    /\ answered[last_op.rid] = <<>>

\* C7 as stated: deliver returns true (200) whenever response.id has an entry
\* in the correlation table, also when the waiter has abandoned the sink, and
\* false (404) only when the id has no entry.
C7_TrueWheneverFound ==
    last_op.op = "respond" => ((last_op.status = "200") <=> last_op.found)

\* C7 as amended: deliver returns true (200) exactly when response.id has an
\* entry and its waiter has not yet dropped the receiver; it returns false
\* (404) when the id has no entry and also when the waiter has abandoned the
\* sink; in every case the table holds no entry for the id afterwards.
C7_TrueWhenFoundAndHeld ==
    last_op.op = "respond" =>
        /\ (last_op.status = "200")
              <=> (last_op.found /\ calls[last_op.rid].st /= "done")
        /\ (last_op.status = "404")
              <=> (~last_op.found \/ calls[last_op.rid].st = "done")
        /\ last_op.rid \notin response_channels

\* A deliver found the entry of an abandoned sink and returned false.
C7_Witness ==
    /\ last_op.op = "respond"
    /\ last_op.found
    /\ calls[last_op.rid].st = "done"
    /\ last_op.status = "404"

\* C8: the registry holds at most one session per (place_id, place_name);
\* after a register the only session with the registered pair is the one just
\* registered.
C8_OnePerPlace ==
    /\ \A s1, s2 \in DOMAIN sessions :
          SamePlace(sessions[s1], sessions[s2]) => s1 = s2
    /\ last_op.op = "register" =>
          /\ last_op.sid \in DOMAIN sessions
          /\ \A s \in DOMAIN sessions :
                SamePlace(sessions[s], sessions[last_op.sid]) => s = last_op.sid

\* A register evicted the session of the same place while a session of
\* another place stayed.
C8_Witness ==
    /\ last_op.op = "register"
    /\ last_op.evicted /= {}
    /\ Cardinality(DOMAIN sessions) >= 2

\* C9: when register(B) evicts the active session A (same place, another id),
\* active_session is B afterwards, whatever other sessions are present.
C9_ReplacementIsActive ==
    (last_op.op = "register" /\ last_op.active_removed)
        => active_session = last_op.sid

\* C10: register sets active_session to the new id if, after reaping and
\* eviction, active_session is unset or its session is not connected (age
\* >= 30 s), and else leaves it as it is; a connected active session that the
\* register neither reaps nor evicts stays active.
C10_AutoActivate ==
    /\ [](last_op.op = "register" =>
            active_session =
                IF \/ last_op.mid = None
                   \/ last_op.mid \notin DOMAIN sessions
                   \/ sessions[last_op.mid].elapsed >= ConnectedSecs
                THEN last_op.sid
                ELSE last_op.mid)
    /\ [][(/\ last_op'.op = "register"
           /\ active_session \in DOMAIN sessions
           /\ sessions[active_session].elapsed < ConnectedSecs
           /\ ~SamePlace(sessions[active_session], sessions'[last_op'.sid]))
           => active_session' = active_session]_vars

\* B registered for another place while A was active and connected, and A is
\* still active.
C10_Witness ==
    /\ last_op.op = "register"
    /\ last_op.sid = "B"
    /\ last_op.mid = "A"
    /\ active_session = "A"
    /\ sessions["A"].elapsed < ConnectedSecs
    /\ "B" \in DOMAIN sessions

\* A send issued now would pass the connectedness check: the active session
\* is present and its heartbeat is younger than 30 s.
CanSend ==
    /\ active_session /= None
    /\ active_session \in DOMAIN sessions
    /\ sessions[active_session].elapsed < ConnectedSecs

\* C11: a direct-mode send issued when active_session is unset, or when the
\* active session's heartbeat is 30 s old or older, returns PluginNotConnected
\* without waiting, enqueues no request on any session and adds no correlation
\* entry.
C11_NotConnectedFailsFast ==
    [][(last_op'.op = "send" /\ ~CanSend)
        => /\ last_op'.status = "PluginNotConnected"
           /\ sessions' = sessions
           /\ response_channels' = response_channels
           /\ calls' = calls
           /\ enqueued' = enqueued
           /\ next_id' = next_id]_vars

\* A send failed with PluginNotConnected while the active session was present
\* with a heartbeat exactly 30 s old.
C11_Witness ==
    /\ last_op.op = "send"
    /\ last_op.status = "PluginNotConnected"
    /\ ~last_op.connected_before
    /\ active_session \in DOMAIN sessions
    /\ sessions[active_session].elapsed = ConnectedSecs

\* C12 as stated: once the active session is no longer connected, every
\* direct-mode send returns PluginNotConnected until a register occurs; no
\* operation other than register takes the broker from a state where a send
\* fails with PluginNotConnected to a state where a send succeeds.
C12_OnlyRegisterReconnects ==
    /\ (last_op.op = "send" /\ ~last_op.connected_before)
          => last_op.status = "PluginNotConnected"
    /\ (~last_op.connected_before /\ CanSend) => last_op.op = "register"

\* C12 as amended: while the active session is not connected every direct-mode
\* send returns PluginNotConnected; a send can succeed again only after a
\* register, after a poll for the active session has refreshed its heartbeat,
\* after a switch to a connected session, or after an unregister of the active
\* session that hands the active role to a connected session; the passage of
\* time, sends and responses never make a send succeed again.
C12_ReconnectingOperations ==
    /\ (last_op.op = "send" /\ ~last_op.connected_before)
          => last_op.status = "PluginNotConnected"
    /\ (last_op.op = "send" /\ last_op.status = "queued")
          => last_op.connected_before
    /\ (~last_op.connected_before /\ CanSend) =>
          \/ last_op.op = "register"
          \/ last_op.op = "poll" /\ sessions[active_session].elapsed = 0
          \/ last_op.op = "switch" /\ last_op.status = "true"
          \/ last_op.op = "unregister" /\ last_op.active_removed

\* The active session was not connected, its plugin polled, and a send would
\* now succeed; no session has been registered since.
C12_Witness ==
    /\ last_op.op = "poll"
    /\ ~last_op.connected_before
    /\ CanSend

\* C13: on the happy path (the active session stays registered and connected,
\* its plugin keeps polling and posts a response with each id it received
\* before the caller's timeout) every direct-mode send that enqueued eventually
\* returns the result or the PluginError of the response carrying its own
\* request id, and never the response of another request.
C13_HappyPathLiveness ==
    /\ \A id \in 1..MaxReq :
          (calls[id].st = "waiting") ~>
              (/\ calls[id].st = "done"
               /\ answered[id] /= <<>>
               /\ calls[id].out = Expected("direct", answered[id][1]))
    /\ [](\A id \in 1..MaxReq :
            calls[id].st \in {"resolved", "done"} =>
                /\ answered[id] /= <<>>
                /\ answered[id][1].id = id
                /\ calls[id].out = Expected("direct", answered[id][1]))

\* Both sends have returned, the first the result of its response and the
\* second the error of its own.
C13_Witness ==
    /\ calls[1].st = "done" /\ calls[1].out.kind = "Ok"
    /\ calls[2].st = "done" /\ calls[2].out.kind = "PluginError"
    /\ answered[1][1].id = 1 /\ answered[2][1].id = 2

\* C14: the wait of a direct-mode send that enqueued resolves to the response
\* if one has been delivered to it, and else, once its timeout has elapsed, to
\* RequestTimeout(tool); every enqueued send therefore terminates, with a
\* response or with RequestTimeout.
C14_TimeoutTerminates ==
    /\ [][\A id \in 1..MaxReq :
            (calls[id].st = "waiting" /\ calls'[id].st /= "waiting") =>
                IF calls[id].buf /= NoResponse
                THEN calls'[id].out = Expected("direct", calls[id].buf)
                ELSE /\ calls[id].left = 0
                     /\ calls'[id].out = Outcome("RequestTimeout", calls[id].tool)]_vars
    /\ \A id \in 1..MaxReq :
          (calls[id].st = "waiting") ~>
              (/\ calls[id].st = "done"
               /\ calls[id].out.kind \in {"Ok", "PluginError", "RequestTimeout"})

\* A request was enqueued, no response came, and its caller returned
\* RequestTimeout(tool); the abandoned entry is still in the table.
C14_Witness ==
    /\ calls[1].st = "done"
    /\ calls[1].out = Outcome("RequestTimeout", "run_code")
    /\ calls[1].buf = NoResponse
    /\ answered[1] = <<>>
    /\ 1 \in response_channels

\* C15: switch(id) returns true and sets active_session to id exactly when id
\* is in the registry, connected or not; when id is absent it returns false
\* and leaves active_session as it is; in both cases no session, queue or
\* correlation entry is modified.
C15_SwitchFrame ==
    [][\A id \in SessionIds :
          handle_switch_session(id) =>
              /\ IF id \in DOMAIN sessions
                 THEN last_op'.status = "true" /\ active_session' = id
                 ELSE last_op'.status = "false" /\ active_session' = active_session
              /\ sessions' = sessions
              /\ response_channels' = response_channels
              /\ calls' = calls]_vars

\* A switch to a session that is registered and not connected succeeded.
C15_Witness ==
    /\ last_op.op = "switch"
    /\ last_op.status = "true"
    /\ last_op.connected_before
    /\ active_session \in DOMAIN sessions
    /\ sessions[active_session].elapsed >= ConnectedSecs

\* C16: a send that enqueues appends exactly one request to the tail of the
\* queue of the session that is active_session at that instant and leaves
\* every other session's queue, the registry and active_session as they are;
\* so after a switch to B sends are enqueued on B and A's queue is untouched.
C16_EnqueueOnActive ==
    [][last_op'.status = "queued" =>
          /\ active_session \in DOMAIN sessions
          /\ active_session' = active_session
          /\ DOMAIN sessions' = DOMAIN sessions
          /\ LET q == sessions[active_session].request_queue
                 r == sessions'[active_session].request_queue
             IN  /\ Len(r) = Len(q) + 1
                 /\ SubSeq(r, 1, Len(q)) = q
                 /\ r[Len(r)].id = next_id
                 /\ r[Len(r)].tool \in Tools
          /\ \A s \in (DOMAIN sessions) \ {active_session} :
                sessions'[s].request_queue = sessions[s].request_queue]_vars

\* The first send was enqueued on A; after a switch to B the second was
\* enqueued on B, and A's queue still holds the first alone.
C16_Witness ==
    /\ last_op.status = "queued"
    /\ active_session = "B"
    /\ DOMAIN sessions = {"A", "B"}
    /\ QueueIds("A") = <<1>>
    /\ QueueIds("B") = <<2>>

\* C17: a direct-mode send is never re-targeted: the one session whose queue
\* it changes is the session that was active, present and connected when the
\* send made its check; a send either enqueues so or fails with
\* PluginNotConnected (its third outcome, the error for a queue_request that
\* finds no session, never occurs), whatever unregister, register and switch
\* did before.
C17_NoRetarget ==
    /\ [](last_op.op = "send" =>
            last_op.status \in {"queued", "PluginNotConnected"})
    /\ [][last_op'.op = "send" =>
            IF CanSend
            THEN /\ last_op'.status = "queued"
                 /\ enqueued' = [enqueued EXCEPT
                                    ![active_session] = Append(@, next_id)]
                 /\ \A s \in DOMAIN sessions :
                       sessions'[s] /= sessions[s] => s = active_session
                 /\ QueueIds(active_session)' = QueueIds(active_session) \o <<next_id>>
            ELSE /\ last_op'.status = "PluginNotConnected"
                 /\ sessions' = sessions]_vars

\* A was active and had a request enqueued; it was then unregistered, and the
\* next send failed with PluginNotConnected, enqueued nowhere.
C17_Witness ==
    /\ last_op.op = "send"
    /\ last_op.status = "PluginNotConnected"
    /\ Len(enqueued["A"]) = 1
    /\ "A" \notin DOMAIN sessions
    /\ \A s \in DOMAIN sessions : sessions[s].request_queue = <<>>

\* C18: no handler holds the state lock while it is suspended: a poll handler
\* between its critical sections or waiting on the session signal, a send
\* waiting on its reply receiver and a proxy handler waiting on its reply
\* receiver do not own the lock; so while any of them waits, register,
\* unregister, respond and a further send can take their step.
C18_NoLockAcrossWait ==
    /\ \A p \in Pollers :
          pollers[p].pc \in {"fetch", "wait"} => ~pollers[p].guard
    /\ \A id \in 1..MaxReq :
          calls[id].st = "waiting" => ~calls[id].guard
    /\ (\/ \E p \in Pollers : pollers[p].pc = "wait"
        \/ \E id \in 1..MaxReq : calls[id].st = "waiting")
          => /\ ENABLED handle_register(Reg("A", 1, "P"))
             /\ ENABLED handle_unregister("A")
             /\ \A resp \in PluginResponse :
                   Polled(resp.id) => ENABLED handle_plugin_response(resp)
             /\ (next_id <= MaxReq \/ ~CanSend)
                   => ENABLED send_to_plugin("run_code", DefaultTimeoutSecs)

\* A poll handler waits on the session signal while a direct-mode send and a
\* proxy handler wait on their reply receivers.
C18_Witness ==
    /\ \E p \in Pollers : pollers[p].pc = "wait"
    /\ \E id, jd \in 1..MaxReq :
          /\ calls[id].st = "waiting" /\ calls[id].kind = "direct"
          /\ calls[jd].st = "waiting" /\ calls[jd].kind = "proxy"

\* C19: a poll of a known session whose queue is empty at the initial pop,
\* and on which no request is enqueued while the poll is in progress, does not
\* reply before its 30 seconds have elapsed, and then replies 204; so every
\* 204 is the reply of a poll that has waited 30 seconds, also when requests
\* were enqueued on and consumed from the session before the poll began.
C19_IdlePollWaits ==
    [][(last_op'.op = "poll" /\ last_op'.status = "204") =>
          \E p \in Pollers :
              /\ pollers[p].pc = "wait"
              /\ pollers'[p].pc = "idle"
              /\ pollers[p].waited >= PollWaitSecs]_vars

\* C20: no wake-up is lost: no poll idles on an unsignalled receiver while a
\* request sits in its session's queue; a poll that reaches its wait after a
\* request was enqueued (also in the window between its initial pop and its
\* wait) finds the signal raised, and a poll woken by the signal with a
\* request in the queue returns that request (200); no poll replies 204 by
\* timeout while a request sits in the queue.
C20_NoLostWakeup ==
    /\ [](\A p \in Pollers :
            (/\ pollers[p].pc = "wait"
             /\ pollers[p].rx = "open"
             /\ pollers[p].sid \in DOMAIN sessions)
                => sessions[pollers[p].sid].request_queue = <<>>)
    /\ [][\A p \in Pollers :
            LET sid == pollers[p].sid
                waiting == /\ sid \in DOMAIN sessions
                           /\ sessions[sid].request_queue /= <<>>
            IN  /\ (pollers[p].pc = "fetch" /\ pollers'[p].pc = "wait" /\ waiting)
                      => pollers'[p].rx = "changed"
                /\ (/\ pollers[p].pc = "wait" /\ pollers'[p].pc = "idle"
                    /\ pollers[p].rx /= "closed" /\ waiting)
                      => /\ last_op'.status = "200"
                         /\ returned' = [returned EXCEPT ![sid] =
                               Append(@, sessions[sid].request_queue[1].id)]]_vars

\* A request was enqueued while a poll was between its initial pop and its
\* wait; the poll has reached its wait and found the signal raised.
C20_Witness ==
    \E p \in Pollers :
        /\ pollers[p].pc = "wait"
        /\ pollers[p].rx = "changed"
        /\ pollers[p].sid \in DOMAIN sessions
        /\ QueueIds(pollers[p].sid) = <<1>>
        /\ returned[pollers[p].sid] = <<>>

\* C21: POST /proxy/tool_call does what a direct-mode send does: in every
\* state of the primary it answers 503 and enqueues nothing exactly when a
\* direct-mode send would fail with PluginNotConnected (active_session unset,
\* or the active session's heartbeat 30 s old or older), and it enqueues on
\* the active session exactly when a direct-mode send would.
C21_ProxyAsDirect ==
    [][last_op'.op = "proxy" =>
          IF CanSend
          THEN /\ last_op'.status = "queued"
               /\ enqueued' = [enqueued EXCEPT
                                  ![active_session] = Append(@, next_id)]
          ELSE /\ last_op'.status = "503"
               /\ sessions' = sessions
               /\ enqueued' = enqueued
               /\ response_channels' = response_channels]_vars

\* C22: in proxy mode, for the caller timeouts the tools use (30 s and 120 s),
\* the HTTP timeout of the forwarded call equals the wait of the primary's
\* handler plus 5 seconds; so for a call that is never answered the handler's
\* timeout fires first and the caller in the proxy returns RequestTimeout(tool)
\* (from the 504), not the PluginError of a transport error.
C22_OuterIsInnerPlusSlack ==
    [][\A p \in Procs :
          /\ (brokers[p].pending = 0 /\ brokers'[p].pending /= 0) =>
                brokers'[p].outer =
                    calls'[brokers'[p].pending].left + ProxySlackSecs
          /\ (/\ brokers[p].pending /= 0
              /\ brokers'[p].pending = 0
              /\ calls[brokers[p].pending].buf = NoResponse)
                => brokers'[p].last = Outcome("RequestTimeout", brokers[p].tool)]_vars

\* The process runs in primary mode, in proxy mode.
Primary(p) == brokers[p].up /\ ~brokers[p].proxy_mode
Proxy(p) == brokers[p].up /\ brokers[p].proxy_mode
TransportError == Outcome("PluginError", "Proxy request failed")

\* C23: among the broker processes started on one port at most one is in
\* primary mode at any time, the one that bound the port; every process whose
\* bind fails is in proxy mode with the URL http://127.0.0.1:<port>, never
\* serves the plugin endpoints, and never enqueues on its own registry: its
\* send and session calls go over HTTP to that URL, where the process that
\* holds the port handles them or the connection is refused.
C23_OnePrimary ==
    /\ [](/\ Cardinality({p \in Procs : Primary(p)}) <= 1
          /\ \A p \in Procs : Primary(p) => brokers[p].listener
          /\ \A p \in Procs :
                Proxy(p) => /\ brokers[p].proxy_url = ProxyUrl(Port)
                            /\ ~brokers[p].listener)
    /\ [][\A p \in Procs :
            /\ start(p) => IF Serving THEN Proxy(p)' ELSE Primary(p)'
            /\ \A tool \in Tools :
                  (Proxy(p) /\ tool_call(p, tool, DefaultTimeoutSecs))
                      => IF Serving
                         THEN last_op'.op = "proxy"
                         ELSE last_op'.op = "forward" /\ UNCHANGED served
            /\ (Proxy(p) /\ switch_session_tool(p, "A"))
                      => IF Serving
                         THEN last_op'.op = "switch"
                         ELSE last_op'.op = "forward" /\ UNCHANGED served]_vars

\* One process holds the port and two run in proxy mode; a call of one of
\* them was forwarded and is queued at the primary.
C23_Witness ==
    /\ Cardinality({p \in Procs : Primary(p)}) = 1
    /\ Cardinality({p \in Procs : Proxy(p)}) = 2
    /\ \E p \in Procs :
          /\ Proxy(p)
          /\ brokers[p].pending /= 0
          /\ calls[brokers[p].pending].kind = "proxy"

\* C24 as stated: a broker's mode never changes after startup; once the
\* primary has died, every send of a process in proxy mode fails with the
\* PluginError of the transport error from then on, and the proxy never
\* becomes primary.
C24_FailsForEver ==
    [][\A p \in Procs :
          /\ (brokers[p].up /\ brokers'[p].up) =>
                brokers'[p].proxy_mode = brokers[p].proxy_mode
          /\ \A tool \in Tools :
                (/\ Proxy(p)
                 /\ brokers[p].orphaned
                 /\ tool_call(p, tool, DefaultTimeoutSecs))
                    => brokers'[p].last = TransportError]_vars

\* C24 as amended: a broker's mode never changes after startup: a process in
\* proxy mode never becomes primary, never takes the port and never serves a
\* call from its own state.  While no process listens on the port every send
\* of the proxy fails with the PluginError of the transport error and changes
\* nothing; once another process has bound the port and runs as primary, the
\* sends of the proxy are forwarded to it.
C24_NoFailover ==
    [][\A p \in Procs :
          /\ (brokers[p].up /\ brokers'[p].up) =>
                /\ brokers'[p].proxy_mode = brokers[p].proxy_mode
                /\ brokers'[p].listener = brokers[p].listener
                /\ brokers'[p].proxy_url = brokers[p].proxy_url
          /\ \A tool \in Tools :
                (Proxy(p) /\ tool_call(p, tool, DefaultTimeoutSecs))
                    => IF Serving
                       THEN last_op'.op = "proxy"
                       ELSE /\ brokers'[p].last = TransportError
                            /\ last_op'.op = "forward"
                            /\ UNCHANGED served]_vars

\* The primary has died and no process has taken the port; a send of the
\* process left in proxy mode has just failed in the transport.
C24_Witness ==
    /\ ~Serving
    /\ last_op.op = "forward"
    /\ last_op.status = "refused"
    /\ \E p \in Procs :
          /\ Proxy(p)
          /\ brokers[p].orphaned
          /\ brokers[p].last = TransportError

\* C25: requests are delivered in enqueue order: when r1 was enqueued on a
\* session before r2 and polls of that session have returned both, r1 was
\* returned by the earlier pop; no request is returned twice.
C25_FifoDelivery ==
    \A s \in SessionIds :
        /\ \A i, j \in 1..Len(returned[s]) :
              i /= j => returned[s][i] /= returned[s][j]
        /\ \A i, j \in 1..Len(enqueued[s]) :
              (/\ i < j
               /\ enqueued[s][i] \in Elems(returned[s])
               /\ enqueued[s][j] \in Elems(returned[s]))
                  => \E k, l \in 1..Len(returned[s]) :
                        /\ k < l
                        /\ returned[s][k] = enqueued[s][i]
                        /\ returned[s][l] = enqueued[s][j]

\* Two requests were enqueued on one session and polls have returned both,
\* the second by the poll that came last.
C25_Witness ==
    \E s \in SessionIds :
        /\ enqueued[s] = <<1, 2>>
        /\ returned[s] = <<1, 2>>
        /\ last_op.op = "poll"
        /\ last_op.status = "200"

\* C26: unregister(id) removes the session id, if present, and touches no
\* other session; when id was not the active session active_session is
\* unchanged; when it was, active_session becomes the id of some remaining
\* session, or unset when none remains; the correlation table is unchanged.
C26_UnregisterFrame ==
    [][\A id \in SessionIds :
          handle_unregister(id) =>
              /\ DOMAIN sessions' = (DOMAIN sessions) \ {id}
              /\ \A s \in DOMAIN sessions' : sessions'[s] = sessions[s]
              /\ IF active_session = id
                 THEN IF DOMAIN sessions' = {}
                      THEN active_session' = None
                      ELSE active_session' \in DOMAIN sessions'
                 ELSE active_session' = active_session
              /\ response_channels' = response_channels]_vars

\* The active session was unregistered while two others were present: one of
\* them is active now, both are as they were.
C26_Witness ==
    /\ last_op.op = "unregister"
    /\ last_op.active_removed
    /\ Cardinality(DOMAIN sessions) = 2
    /\ active_session \in DOMAIN sessions

\* C27: a session whose heartbeat is 30 s old or older is never chosen by the
\* automatic selection of the active session: whenever a register or an
\* unregister sets active_session to another session, that session is
\* connected at that moment.
C27_StaleNeverSelected ==
    [][(/\ last_op'.op \in {"register", "unregister"}
        /\ active_session' /= active_session
        /\ active_session' /= None)
          => is_session_connected(sessions', active_session')]_vars

\* C28: reaping never removes a session whose heartbeat is 60 s old or
\* younger (a register removes such a session only as a duplicate of the
\* place or to replace it under its own id); the passage of time leaves every
\* session in the registry with its queue intact; a poll for a session whose
\* heartbeat is between 30 s and 60 s old makes it connected again and
\* returns the head of its queue, with no registration in between.
C28_HysteresisBand ==
    [][/\ last_op'.op = "register" =>
             \A s \in DOMAIN sessions :
                 (sessions[s].elapsed <= ReapSecs /\ s \notin DOMAIN sessions')
                     => s \in last_op'.evicted
       /\ last_op'.op = "register" =>
             \A s \in (DOMAIN sessions) \ (last_op'.evicted \cup {last_op'.sid}) :
                 sessions[s].elapsed <= ReapSecs => sessions'[s] = sessions[s]
       /\ last_op'.op = "tick" =>
             /\ DOMAIN sessions' = DOMAIN sessions
             /\ \A s \in DOMAIN sessions :
                   sessions'[s].request_queue = sessions[s].request_queue
       /\ \A p \in Pollers : \A s \in SessionIds :
             (/\ handle_poll_request(p, s)
              /\ s \in DOMAIN sessions
              /\ sessions[s].elapsed >= ConnectedSecs
              /\ sessions[s].elapsed <= ReapSecs)
                 => /\ is_session_connected(sessions', s)
                    /\ registered_at' = registered_at
                    /\ sessions[s].request_queue /= <<>> =>
                          /\ last_op'.status = "200"
                          /\ returned'[s] = Append(returned[s],
                                                   sessions[s].request_queue[1].id)
                          /\ sessions'[s].request_queue =
                                Tail(sessions[s].request_queue)]_vars

\* The active session held a request and was not connected; its plugin
\* polled, received the request, and the session is connected again.  The
\* other session is 60 s old and a register has left it in the registry.
C28_Witness ==
    /\ last_op.op = "poll"
    /\ last_op.status = "200"
    /\ ~last_op.connected_before
    /\ CanSend
    /\ returned[active_session] /= <<>>
    /\ \E s \in DOMAIN sessions : sessions[s].elapsed = ReapSecs

\* C29: a session whose heartbeat is more than 60 s old is eventually removed
\* from the registry, by a reap; and after any register completes no session
\* other than the one just registered has a heartbeat more than 60 s old.
C29_DeadReaped ==
    /\ \A s \in SessionIds :
          (s \in DOMAIN sessions /\ sessions[s].elapsed > ReapSecs)
              ~> (\/ s \notin DOMAIN sessions
                  \/ last_op.op = "register" /\ last_op.sid = s)
    /\ [][last_op'.op = "register" =>
            \A s \in (DOMAIN sessions') \ {last_op'.sid} :
                sessions'[s].elapsed <= ReapSecs]_vars

\* C30: after a caller has timed out its correlation entry is eventually
\* removed, by the sweep or by a late response; immediately after any register
\* the table holds no entry whose caller has dropped its receiver, and every
\* entry whose caller still holds its receiver is retained.
C30_Swept ==
    /\ \A id \in 1..MaxReq :
          (/\ calls[id].st = "done"
           /\ calls[id].out.kind = "RequestTimeout"
           /\ id \in response_channels)
              ~> (id \notin response_channels)
    /\ [][last_op'.op = "register" =>
            response_channels' =
                {id \in response_channels : ReceiverHeld(calls[id])}]_vars

\* The request ids ever enqueued, the ids some poll has returned, the ids in a
\* queue now, and the ids that left a queue without being returned.
AllEnqueued == UNION {Elems(enqueued[s]) : s \in SessionIds}
AllReturned == UNION {Elems(returned[s]) : s \in SessionIds}
AllQueued == UNION {Elems(QueueIds(s)) : s \in SessionIds}
Dropped == AllEnqueued \ (AllReturned \cup AllQueued)

\* C31: the requests in a session's queue when the session is unregistered,
\* evicted by a registration of the same place, reaped, or replaced by a
\* registration under its own id are dropped: from that step on none of them
\* is in any queue or is returned by any poll, and a poll of a session returns
\* only requests that were enqueued under that session's id.
C31_DroppedNotMigrated ==
    [][/\ \A s \in DOMAIN sessions :
             (\/ s \notin DOMAIN sessions'
              \/ last_op'.op = "register" /\ last_op'.sid = s)
                 => Elems(QueueIds(s)) \subseteq Dropped'
       /\ Dropped \subseteq Dropped'
       /\ \A s \in SessionIds :
             Elems(returned'[s]) \subseteq Elems(enqueued'[s])]_vars

\* Request 1 was dropped with its session, and a later poll returned request 2
\* and nothing else.
C31_Witness ==
    /\ 1 \in Dropped
    /\ AllReturned = {2}
    /\ last_op.op = "poll" /\ last_op.status = "200"

\* C32 (as stated): a registration under a session id already present replaces
\* that session by a fresh one (the new place_id, place_name and game_id, a
\* heartbeat of now, an empty queue), and every other session of a different
\* (place_id, place_name) is untouched.
C32_OthersUntouched ==
    [][\A reg \in Registrations :
          (handle_register(reg) /\ reg.session_id \in DOMAIN sessions)
              => /\ reg.session_id \in DOMAIN sessions'
                 /\ sessions'[reg.session_id] = NewSession(reg)
                 /\ \A t \in DOMAIN sessions \ {reg.session_id} :
                       ~SamePlace(sessions[t], reg)
                           => /\ t \in DOMAIN sessions'
                              /\ sessions'[t] = sessions[t]]_vars

\* C32 (amended): the session is replaced by a fresh one; every other session
\* of a different (place_id, place_name) whose heartbeat is at most ReapSecs
\* old is untouched, and every other session whose heartbeat is older is
\* removed by the reap that runs first.
C32_LastWriteWins ==
    [][\A reg \in Registrations :
          (handle_register(reg) /\ reg.session_id \in DOMAIN sessions)
              => /\ reg.session_id \in DOMAIN sessions'
                 /\ sessions'[reg.session_id] = NewSession(reg)
                 /\ \A t \in DOMAIN sessions \ {reg.session_id} :
                       /\ (~SamePlace(sessions[t], reg)
                               /\ sessions[t].elapsed <= ReapSecs)
                             => /\ t \in DOMAIN sessions'
                                /\ sessions'[t] = sessions[t]
                       /\ sessions[t].elapsed > ReapSecs
                             => t \notin DOMAIN sessions']_vars

\* B has registered again under its id, this time for the place named Q,
\* while A (another place name, a heartbeat 30 seconds old) stays as it was.
C32_Witness ==
    /\ last_op.op = "register" /\ last_op.sid = "B" /\ last_op.found
    /\ sessions["B"].place_name = "Q" /\ sessions["B"].elapsed = 0
    /\ "A" \in DOMAIN sessions /\ sessions["A"].elapsed = ConnectedSecs

\* C33: a poll that names a session id absent from the registry changes
\* nothing in the AppState and, the id still absent when it asks for the
\* session's receiver, is answered 404; a poll that names a present session
\* sets that session's heartbeat to now and leaves every other session as it
\* was.
C33_PollHeartbeat ==
    [][\A p \in Pollers :
          /\ \A sid \in SessionIds :
                handle_poll_request(p, sid)
                    => IF sid \in DOMAIN sessions
                       THEN /\ DOMAIN sessions' = DOMAIN sessions
                            /\ sessions'[sid].elapsed = 0
                            /\ \A s \in DOMAIN sessions \ {sid} :
                                  sessions'[s] = sessions[s]
                       ELSE UNCHANGED <<sessions, active_session,
                                        response_channels, calls, enqueued,
                                        returned>>
          /\ (handle_poll_request_rx(p) /\ pollers[p].sid \notin DOMAIN sessions)
                => /\ last_op'.status = "404"
                   /\ pollers'[p] = IdlePoller
                   /\ UNCHANGED <<sessions, active_session, response_channels,
                                  calls, enqueued, returned>>]_vars

\* A poll of A has just refreshed A's heartbeat while B's is 30 seconds old.
C33_Witness ==
    /\ last_op.op = "poll"
    /\ \E p \in Pollers : pollers[p].pc = "fetch" /\ pollers[p].sid = "A"
    /\ "A" \in DOMAIN sessions /\ sessions["A"].elapsed = 0
    /\ "B" \in DOMAIN sessions /\ sessions["B"].elapsed = ConnectedSecs

\* C34: while a call forwarded by a proxy is in flight, the request the
\* primary enqueued for it (the one the plugin receives from its poll and
\* answers) carries the id the proxy gave the PluginRequest it posted.
C34_ForwardedIdKept ==
    \A p \in Procs :
        brokers[p].pending /= 0 => brokers[p].pending = brokers[p].posted

\* C35: every request in a session's queue whose caller still holds its
\* receiver (it waits, or its wait has resolved and it has not returned) has
\* its sender in response_channels: the sweep of a registration and the
\* delivery of a response for another id leave it there.
C35_QueuedHasEntry ==
    \A s \in DOMAIN sessions :
        \A i \in 1..Len(sessions[s].request_queue) :
            LET id == sessions[s].request_queue[i].id
            IN  ReceiverHeld(calls[id]) => id \in response_channels

\* B has just registered: the sweep removed the sender of request 1, whose
\* caller timed out unanswered and returned, and kept the sender of request
\* 2, which is queued for A with its caller waiting.
C35_Witness ==
    /\ last_op.op = "register" /\ last_op.sid = "B"
    /\ QueueIds("A") = <<2>>
    /\ calls[2].st = "waiting" /\ 2 \in response_channels
    /\ calls[1].st = "done" /\ answered[1] = <<>> /\ 1 \notin response_channels

\* C36: no request id is returned by two polls, whatever the number of polls
\* in progress on the session; and a poll that was signalled and finds the
\* queue empty when it takes the lock (another poll has taken the request)
\* replies 204 and returns nothing.
C36_ReturnedOnce ==
    /\ [](\A s, u \in SessionIds :
            \A i \in 1..Len(returned[s]) : \A j \in 1..Len(returned[u]) :
                (s /= u \/ i /= j) => returned[s][i] /= returned[u][j])
    /\ [][\A p \in DOMAIN pollers :
            (handle_poll_request_wake(p) /\ ~Queued(pollers[p].sid))
                => /\ last_op'.status = "204"
                   /\ returned' = returned]_vars

\* Two polls of A were in progress with one request enqueued: one of them has
\* just returned it, the other is signalled and finds the queue empty.
C36_Witness ==
    /\ enqueued["A"] = <<1>> /\ returned["A"] = <<1>>
    /\ QueueIds("A") = <<>>
    /\ last_op.op = "poll" /\ last_op.status = "200"
    /\ \E p, q \in DOMAIN pollers :
          /\ p /= q
          /\ pollers[p].pc = "idle"
          /\ pollers[q].pc = "wait" /\ pollers[q].rx = "changed"

\* C37: in direct mode the enqueue inside send cannot fail: in every state in
\* which is_plugin_connected() holds, queue_request returns an id and a
\* receiver, and no send ever ends in PluginError("No active session...").
C37_EnqueueNeverFails ==
    /\ \A tool \in Tools :
          is_plugin_connected(sessions, active_session)
              => queue_request(sessions, active_session, response_channels,
                               tool, next_id).ok
    /\ last_op.op = "send" => last_op.status \in {"queued", "PluginNotConnected"}

\* A send has just enqueued the second request, on A, after the first went
\* to B: the connectedness check passed and queue_request returned Some.
C37_Witness ==
    /\ last_op.op = "send" /\ last_op.status = "queued"
    /\ last_op.connected_before
    /\ active_session = "A"
    /\ enqueued["B"] = <<1>> /\ enqueued["A"] = <<2>>

\* C38: a caller never finds its reply channel closed with nothing in it: no
\* caller's outcome is PluginError("Response channel closed"), and while a
\* caller waits its sender is in response_channels or the response it sent
\* is in the channel (deliver removes the sender after it has sent, the sweep
\* removes only senders whose receiver is dropped).
C38_NeverClosedEmpty ==
    \A id \in 1..MaxReq :
        /\ calls[id].out /= Outcome("PluginError", "Response channel closed")
        /\ calls[id].st = "waiting"
              => (id \in response_channels \/ calls[id].buf /= NoResponse)

\* A registration has just swept the table while the caller of request 2
\* waits: its sender is kept; request 1 was answered, its sender removed by
\* the delivery, and its caller returned the response.
C38_Witness ==
    /\ last_op.op = "register"
    /\ calls[2].st = "waiting" /\ 2 \in response_channels
    /\ calls[1].st = "done" /\ calls[1].out.kind = "Ok"
    /\ 1 \notin response_channels

\* C39: a caller whose request was still queued when its session was
\* unregistered, evicted, reaped or replaced is not failed early: the step
\* that drops the request leaves the caller and its sender as they were,
\* while the caller waits its sender stays in response_channels, its wait
\* ends only when its timeout has elapsed, and its outcome is
\* RequestTimeout(tool).
C39_DroppedWaitsFull ==
    /\ [](\A id \in Dropped :
            /\ calls[id].st = "waiting" => id \in response_channels
            /\ calls[id].st \in {"resolved", "done"}
                  => calls[id].out = Outcome("RequestTimeout", calls[id].tool))
    /\ [][\A id \in Dropped' :
            /\ (id \notin Dropped /\ ReceiverHeld(calls[id]))
                  => /\ calls'[id] = calls[id]
                     /\ id \in response_channels'
            /\ (calls[id].st = "waiting" /\ calls'[id].st /= "waiting")
                  => calls[id].left = 0]_vars

\* A has just been unregistered with request 1 in its queue: the caller of
\* request 1 still waits, with its whole timeout left and its sender in the
\* table.
C39_Witness ==
    /\ last_op.op = "unregister"
    /\ 1 \in Dropped
    /\ calls[1].st = "waiting" /\ calls[1].left = DefaultTimeoutSecs
    /\ 1 \in response_channels

\* C40: every poll terminates.  A poll that waits on a session's receiver
\* when the session is unregistered, evicted, reaped or replaced by a
\* registration under its id finds the receiver closed, and a poll whose
\* receiver is closed replies 204 and takes no request, of the replacing
\* session or of any other; a poll that has waited PollWaitSecs can reply;
\* and every poll in progress replies in the end.
C40_PollTerminates ==
    /\ [][\A p \in Pollers :
            /\ (/\ pollers[p].pc = "wait" /\ pollers[p].rx = "open"
                 /\ pollers[p].sid \in DOMAIN sessions
                 /\ \/ pollers[p].sid \notin DOMAIN sessions'
                    \/ /\ last_op'.op = "register"
                       /\ last_op'.sid = pollers[p].sid)
                  => /\ pollers'[p].pc = "wait"
                     /\ pollers'[p].rx = "closed"
            /\ (handle_poll_request_wake(p) /\ pollers[p].rx = "closed")
                  => /\ last_op'.status = "204"
                     /\ sessions' = sessions
                     /\ returned' = returned]_vars
    /\ [](\A p \in Pollers :
            (pollers[p].pc = "wait" /\ pollers[p].waited >= PollWaitSecs)
                => ENABLED handle_poll_request_wake(p))
    /\ \A p \in Pollers :
          (pollers[p].pc /= "idle") ~> (pollers[p].pc = "idle")

\* A poll has just replied 204 while request 1 is queued for A: it waited on
\* a receiver that was closed under it (an enqueue would have signalled an
\* open one), and it left the request of the session now registered alone.
C40_Witness ==
    /\ last_op.op = "poll" /\ last_op.status = "204"
    /\ QueueIds("A") = <<1>>
    /\ AllReturned = {}

====
